---- MODULE Spec2Model ----
(***************************************************************************)
(* State-machine model of the RAG pipeline (rag/pipeline.py) together with *)
(* the embedding client (rag/yandex_embedder.py) and the completion client *)
(* (rag/yandex_gpt.py).  The vector store (rag/vectorstore.py) and the     *)
(* retriever (rag/retriever.py) are modelled from their contract.          *)
(*                                                                         *)
(* The remote services are the environment: every outbound call picks its  *)
(* response with \E.  Non-ASCII literals of the source are transliterated. *)
(***************************************************************************)
EXTENDS Integers, Sequences, FiniteSets, TLC

VARIABLES
    is_loaded,        \* RAGPipeline.is_loaded
    vectorstore,      \* in-memory index of FAISSVectorStore
    disk,             \* persisted index (the two artifacts as one value)
    dimension,        \* YandexEmbedder._dimension
    pc,               \* position of the running operation, "idle" between calls
    op,               \* entry point of the running operation, "none" between calls
    query,            \* argument query
    history,          \* argument history
    top_k,            \* argument top_k
    documents,        \* argument documents of index_documents
    doc_sources,      \* argument sources of index_documents
    embeddings,       \* local embeddings of embed_texts / index_documents
    context,          \* local context of query_with_history
    sources,          \* local sources of query_with_history
    messages,         \* local messages of query_with_history
    yandex_messages,  \* message list sent to the completion service
    exc,              \* exception raised in the operation: the call that raised and str(e)
    outcome,          \* "none", "returned", "raised"
    result,           \* Query Result returned by query_with_history
    ix_result,        \* boolean returned by index_documents
    calls,            \* calls made by the running operation, in order
    last_embedding_len, \* length of the vector of the most recent successful embed_text call, 0 if none
    pre               \* is_loaded, vectorstore and disk as they were when the operation was called

persistent == <<is_loaded, vectorstore, disk, dimension>>
qargs      == <<query, history, top_k>>
qlocals    == <<context, sources, messages, yandex_messages>>
ixargs     == <<documents, doc_sources>>
vars == <<is_loaded, vectorstore, disk, dimension, pc, op, query, history,
          top_k, documents, doc_sources, embeddings, context, sources,
          messages, yandex_messages, exc, outcome, result, ix_result, calls,
          last_embedding_len, pre>>

(***************************************************************************)
(* Configuration (config.py) and literals of the source.                   *)
(***************************************************************************)
YANDEX_GPT_MODEL == "yandexgpt-lite"
SYSTEM_PROMPT == "You are an assistant with access to a knowledge base."
TOP_K_RESULTS == 3
MAX_CONTEXT_LENGTH == 3000
MAX_HISTORY_LENGTH == 10
DEFAULT_DIMENSION == 256
max_history_items == 10 * 2

NOT_LOADED_ANSWER == "[x] Knowledge base is not loaded. Run /ingest to index the documents."
ERROR_PREFIX == "[x] An error occurred while processing the request: "
BAD_FORMAT == "Bad response format from Yandex API"
HTTP_ERROR == "HTTPError"
DIMENSION_MISMATCH == "DimensionMismatch"
LENGTH_MISMATCH == "LengthMismatch"
SAVE_ERROR == "OSError"

(***************************************************************************)
(* Bounds of the model.                                                    *)
(***************************************************************************)
MaxHistory == 22

Min(a, b) == IF a < b THEN a ELSE b

(***************************************************************************)
(* Inputs.                                                                 *)
(***************************************************************************)
Queries == {"capital of France"}
TopKs == {1, TOP_K_RESULTS}

\* a conversation of n entries, user and assistant alternating
History(n) ==
    [i \in 1..n |-> [role |-> IF i % 2 = 1 THEN "user" ELSE "assistant",
                     content |-> "m" \o ToString(i)]]

HistoryLens ==
    {n \in 0..MaxHistory :
        \/ n <= 1
        \/ n >= max_history_items - 1}

\* a history that carries a system entry of its own
SystemHistory ==
    <<[role |-> "system", content |-> "Answer briefly."],
      [role |-> "assistant", content |-> "OK."]>>

Histories == {History(n) : n \in HistoryLens} \cup {SystemHistory}

\* a text of n copies of s
RECURSIVE Repeat(_, _)
Repeat(s, n) ==
    IF n = 0 THEN ""
    ELSE LET h == Repeat(s, n \div 2)
         IN  IF n % 2 = 0 THEN h \o h ELSE h \o h \o s

\* a document longer than the context budget
LongText == Repeat("x", MAX_CONTEXT_LENGTH + 1)

\* (documents, sources) batches handed to index_documents
DocBatches ==
    { <<<<>>, <<>>>>,
      <<<<"Paris">>, <<"fr.txt">>>>,
      <<<<"Paris", "Berlin">>, <<"fr.txt">>>>,
      <<<<"Paris", "Berlin", LongText>>, <<"fr.txt", "de.txt", "fr.txt">>>> }

\* responses of the embedding service
Vectors == {<<1, 0>>, <<0, 1>>, <<1>>}
EmbedResponses ==
    {[kind |-> "embedding", embedding |-> v] : v \in Vectors}
    \cup {[kind |-> "no_embedding", embedding |-> <<>>],
          [kind |-> "http_error", embedding |-> <<>>]}

\* responses of the completion service
CompletionResponses ==
    {[kind |-> "alternatives", text |-> "Paris."],
     [kind |-> "no_result", text |-> ""],
     [kind |-> "http_error", text |-> ""]}

(***************************************************************************)
(* YandexEmbedder.embed_text: the outcome of one call under the current    *)
(* dimension dim and the service response resp.                            *)
(***************************************************************************)
\* variant: the dimension is never corrected from the response
embed_text_keeps_dimension(dim, resp) ==
    IF resp.kind = "embedding"
    THEN [raised |-> FALSE, value |-> resp.embedding, dim |-> dim, error |-> ""]
    ELSE [raised |-> TRUE,
          value |-> <<>>,
          dim |-> dim,
          error |-> IF resp.kind = "no_embedding" THEN BAD_FORMAT ELSE HTTP_ERROR]

embed_text(dim, resp) ==
    IF resp.kind = "embedding"
    THEN [raised |-> FALSE,
          value |-> resp.embedding,
          dim |-> IF Len(resp.embedding) # dim THEN Len(resp.embedding) ELSE dim,
          error |-> ""]
    ELSE [raised |-> TRUE,
          value |-> <<>>,
          dim |-> dim,
          error |-> IF resp.kind = "no_embedding" THEN BAD_FORMAT ELSE HTTP_ERROR]

get_embedding_dimension == dimension

(***************************************************************************)
(* YandexGPT.generate_completion: translation of the messages and the      *)
(* reading of the response.                                                *)
(***************************************************************************)
\* variant: system entries are sent with their role unchanged
YandexMessages_keeps_system(msgs) ==
    [i \in 1..Len(msgs) |-> [role |-> msgs[i].role, text |-> msgs[i].content]]

YandexMessages(msgs) ==
    [i \in 1..Len(msgs) |->
        IF msgs[i].role = "system"
        THEN [role |-> "user", text |-> "System instruction: " \o msgs[i].content]
        ELSE [role |-> msgs[i].role, text |-> msgs[i].content]]

\* variant: a response without result/alternatives yields an empty answer
generate_completion_lenient(resp) ==
    IF resp.kind \in {"alternatives", "no_result"}
    THEN [raised |-> FALSE, value |-> resp.text, error |-> ""]
    ELSE [raised |-> TRUE, value |-> "", error |-> HTTP_ERROR]

generate_completion(resp) ==
    IF resp.kind = "alternatives"
    THEN [raised |-> FALSE, value |-> resp.text, error |-> ""]
    ELSE [raised |-> TRUE, value |-> "",
          error |-> IF resp.kind = "no_result" THEN BAD_FORMAT ELSE HTTP_ERROR]

(***************************************************************************)
(* FAISSVectorStore.                                                       *)
(***************************************************************************)
NoIndex == [present |-> FALSE, dimension |-> 0, records |-> <<>>]

create_index(d) == [present |-> TRUE, dimension |-> d, records |-> <<>>]

\* "" when the batch can be appended, the failure otherwise
add_error(vs, texts, vecs, srcs) ==
    IF Len(texts) # Len(vecs) \/ Len(texts) # Len(srcs) THEN LENGTH_MISMATCH
    ELSE IF \E i \in 1..Len(vecs) : Len(vecs[i]) # vs.dimension THEN DIMENSION_MISMATCH
    ELSE ""

add_documents(vs, texts, vecs, srcs) ==
    [vs EXCEPT !.records =
        @ \o [i \in 1..Len(texts) |->
                [text |-> texts[i], source |-> srcs[i], vector |-> vecs[i]]]]

RECURSIVE SumSq(_, _, _)
SumSq(a, b, i) ==
    IF i = 0 THEN 0 ELSE (a[i] - b[i]) * (a[i] - b[i]) + SumSq(a, b, i - 1)

Distance(a, b) == SumSq(a, b, Len(a))

search_error(vs, qv) ==
    IF vs.present /\ Len(qv) # vs.dimension THEN DIMENSION_MISMATCH ELSE ""

\* the k nearest records, best first, ties by insertion order
search(vs, qv, k) ==
    LET n == Len(vs.records)
        D(i) == Distance(vs.records[i].vector, qv)
        Rank(i) == Cardinality({j \in 1..n : D(j) < D(i) \/ (D(j) = D(i) /\ j < i)}) + 1
    IN  [p \in 1..Min(k, n) |-> vs.records[CHOOSE i \in 1..n : Rank(i) = p]]

(***************************************************************************)
(* DocumentRetriever.                                                      *)
(***************************************************************************)
RECURSIVE JoinTexts(_)
JoinTexts(rs) ==
    IF rs = <<>> THEN ""
    ELSE IF Len(rs) = 1 THEN rs[1].text
    ELSE rs[1].text \o "\n\n" \o JoinTexts(Tail(rs))

retrieve_context(rs, max_length) ==
    LET s == JoinTexts(rs)
    IN  IF Len(s) > max_length THEN SubSeq(s, 1, max_length) ELSE s

RECURSIVE UniqueSources(_, _)
UniqueSources(rs, seen) ==
    IF rs = <<>> THEN seen
    ELSE IF \E i \in 1..Len(seen) : seen[i] = rs[1].source
         THEN UniqueSources(Tail(rs), seen)
         ELSE UniqueSources(Tail(rs), Append(seen, rs[1].source))

get_relevant_sources(rs) == UniqueSources(rs, <<>>)

(***************************************************************************)
(* RAGPipeline.query_with_history: pure parts.                             *)
(***************************************************************************)
RAG_PROMPT_TEMPLATE(ctx, q) ==
    "Context from the knowledge base:\n" \o ctx
        \o "\n\nUser question: " \o q \o "\n\nAnswer:"

\* variant: keeps the oldest entries instead of the most recent ones
recent_history_oldest(h) ==
    IF Len(h) > max_history_items
    THEN SubSeq(h, 1, max_history_items)
    ELSE h

recent_history(h) ==
    IF Len(h) > max_history_items
    THEN SubSeq(h, Len(h) - max_history_items + 1, Len(h))
    ELSE h

\* variant: the current question is placed before the history
BuildMessages_question_first(h, ctx, q) ==
    <<[role |-> "system", content |-> SYSTEM_PROMPT]>>
        \o <<[role |-> "user", content |-> RAG_PROMPT_TEMPLATE(ctx, q)]>>
        \o (IF h # <<>> THEN recent_history(h) ELSE <<>>)

BuildMessages(h, ctx, q) ==
    <<[role |-> "system", content |-> SYSTEM_PROMPT]>>
        \o (IF h # <<>> THEN recent_history(h) ELSE <<>>)
        \o <<[role |-> "user", content |-> RAG_PROMPT_TEMPLATE(ctx, q)]>>

NoExc == [where |-> "", detail |-> ""]

EmptyResult ==
    [answer |-> "", context |-> "", sources |-> <<>>, model |-> "", clean_query |-> ""]

\* variant: the not-loaded case answers with the generic error text
NotLoadedResult_generic(q) ==
    [answer |-> ERROR_PREFIX \o "index is not loaded", context |-> "",
     sources |-> <<>>, model |-> YANDEX_GPT_MODEL, clean_query |-> q]

NotLoadedResult(q) ==
    [answer |-> NOT_LOADED_ANSWER, context |-> "", sources |-> <<>>,
     model |-> YANDEX_GPT_MODEL, clean_query |-> q]

\* variant: the successful result carries the answer without clean_query
DoneResult_without_clean_query(a, ctx, srcs, q) ==
    [answer |-> a, context |-> ctx, sources |-> srcs, model |-> YANDEX_GPT_MODEL]

DoneResult(a, ctx, srcs, q) ==
    [answer |-> a, context |-> ctx, sources |-> srcs,
     model |-> YANDEX_GPT_MODEL, clean_query |-> q]

\* variant: the except clause logs and re-raises
QueryExcept_reraise(e, q) == [outcome |-> "raised", result |-> EmptyResult]

\* the except clause of query_with_history
QueryExcept(e, q) ==
    [outcome |-> "returned",
     result |-> [answer |-> ERROR_PREFIX \o e, context |-> "", sources |-> <<>>,
                 model |-> YANDEX_GPT_MODEL, clean_query |-> q]]

\* variant: the except clause logs the error and still reports success
IndexExcept_true(e) == [outcome |-> "returned", value |-> TRUE]

\* the except clause of index_documents
IndexExcept(e) == [outcome |-> "returned", value |-> FALSE]

(***************************************************************************)
(* Initial state: the state after RAGPipeline.__init__, which loads the    *)
(* persisted index if there is one.                                        *)
(***************************************************************************)
SavedIndex ==
    [present |-> TRUE, dimension |-> 2,
     records |-> <<[text |-> "Madrid", source |-> "es.txt", vector |-> <<0, 1>>]>>]

load(d) == d.present

Init ==
    /\ disk \in {NoIndex, SavedIndex}
    /\ vectorstore = disk
    /\ is_loaded = load(disk)
    /\ dimension = DEFAULT_DIMENSION
    /\ pc = "idle"
    /\ op = "none"
    /\ query = ""
    /\ history = <<>>
    /\ top_k = TOP_K_RESULTS
    /\ documents = <<>>
    /\ doc_sources = <<>>
    /\ embeddings = <<>>
    /\ context = ""
    /\ sources = <<>>
    /\ messages = <<>>
    /\ yandex_messages = <<>>
    /\ exc = NoExc
    /\ outcome = "none"
    /\ result = EmptyResult
    /\ ix_result = FALSE
    /\ calls = <<>>
    /\ last_embedding_len = 0
    /\ pre = [is_loaded |-> is_loaded, vectorstore |-> vectorstore, disk |-> disk]

(***************************************************************************)
(* RAGPipeline.query and RAGPipeline.query_with_history, step by step.     *)
(* pc follows START -> NOT_LOADED | RETRIEVE -> SOURCES -> CONTEXT_BUILT   *)
(* -> HISTORY_MERGED -> GENERATING -> DONE | FAILED.                       *)
(***************************************************************************)
QueryEnter(name, q, h, k) ==
    /\ pc' = "START"
    /\ op' = name
    /\ query' = q
    /\ history' = h
    /\ top_k' = k
    /\ context' = ""
    /\ sources' = <<>>
    /\ messages' = <<>>
    /\ yandex_messages' = <<>>
    /\ exc' = NoExc
    /\ outcome' = "none"
    /\ result' = EmptyResult
    /\ calls' = <<>>
    /\ documents' = <<>>
    /\ doc_sources' = <<>>
    /\ embeddings' = <<>>
    /\ ix_result' = FALSE
    /\ UNCHANGED persistent
    /\ pre' = [is_loaded |-> is_loaded, vectorstore |-> vectorstore, disk |-> disk]
    /\ UNCHANGED last_embedding_len

\* query(query, top_k): history=[]
Query ==
    /\ pc = "idle"
    /\ \E q \in Queries, k \in TopKs : QueryEnter("query", q, <<>>, k)

\* query_with_history(query, history, top_k); a history of None is replaced
\* by the empty list on entry
QueryWithHistory ==
    /\ pc = "idle"
    /\ \E q \in Queries, h \in Histories, k \in TopKs :
        QueryEnter("query_with_history", q, h, k)

\* variant: the loaded check is missing
CheckLoaded_unguarded ==
    /\ pc = "START"
    /\ pc' = "RETRIEVE"
    /\ UNCHANGED <<persistent, op, qargs, qlocals, ixargs, embeddings, exc,
                   outcome, result, ix_result, calls>>
    /\ UNCHANGED <<last_embedding_len, pre>>

\* if not self.is_loaded: return the fixed response
CheckLoaded ==
    /\ pc = "START"
    /\ IF ~is_loaded
       THEN /\ pc' = "NOT_LOADED"
            /\ outcome' = "returned"
            /\ result' = NotLoadedResult(query)
       ELSE /\ pc' = "RETRIEVE"
            /\ UNCHANGED <<outcome, result>>
    /\ UNCHANGED <<persistent, op, qargs, qlocals, ixargs, embeddings, exc,
                   ix_result, calls>>
    /\ UNCHANGED <<last_embedding_len, pre>>

\* an exception reaches the except clause of query_with_history
QueryRaise(w, e) ==
    /\ pc' = "FAILED"
    /\ exc' = [where |-> w, detail |-> e]
    /\ outcome' = QueryExcept(e, query).outcome
    /\ result' = QueryExcept(e, query).result

\* variant: the retriever is given twice the configured context budget
RetrieveContext_double_budget ==
    /\ pc = "RETRIEVE"
    /\ \E resp \in EmbedResponses :
        LET r  == embed_text(dimension, resp)
            se == search_error(vectorstore, r.value)
        IN  /\ dimension' = r.dim
            /\ last_embedding_len' = IF r.raised THEN last_embedding_len ELSE Len(r.value)
            /\ IF r.raised
               THEN /\ calls' = Append(calls, "embed_text")
                    /\ QueryRaise("retrieve_context", r.error)
                    /\ UNCHANGED context
               ELSE IF se # ""
               THEN /\ calls' = calls \o <<"embed_text", "search">>
                    /\ QueryRaise("retrieve_context", se)
                    /\ UNCHANGED context
               ELSE /\ calls' = calls \o <<"embed_text", "search">>
                    /\ context' = retrieve_context(search(vectorstore, r.value, top_k),
                                                   2 * MAX_CONTEXT_LENGTH)
                    /\ pc' = "SOURCES"
                    /\ UNCHANGED <<exc, outcome, result>>
    /\ UNCHANGED <<is_loaded, vectorstore, disk, op, qargs, sources, messages,
                   yandex_messages, ixargs, embeddings, ix_result>>
    /\ UNCHANGED pre

\* Step 1: context = self.retriever.retrieve_context(query, top_k, MAX_CONTEXT_LENGTH)
RetrieveContext ==
    /\ pc = "RETRIEVE"
    /\ \E resp \in EmbedResponses :
        LET r  == embed_text(dimension, resp)
            se == search_error(vectorstore, r.value)
        IN  /\ dimension' = r.dim
            /\ last_embedding_len' = IF r.raised THEN last_embedding_len ELSE Len(r.value)
            /\ IF r.raised
               THEN /\ calls' = Append(calls, "embed_text")
                    /\ QueryRaise("retrieve_context", r.error)
                    /\ UNCHANGED context
               ELSE IF se # ""
               THEN /\ calls' = calls \o <<"embed_text", "search">>
                    /\ QueryRaise("retrieve_context", se)
                    /\ UNCHANGED context
               ELSE /\ calls' = calls \o <<"embed_text", "search">>
                    /\ context' = retrieve_context(search(vectorstore, r.value, top_k),
                                                   MAX_CONTEXT_LENGTH)
                    /\ pc' = "SOURCES"
                    /\ UNCHANGED <<exc, outcome, result>>
    /\ UNCHANGED <<is_loaded, vectorstore, disk, op, qargs, sources, messages,
                   yandex_messages, ixargs, embeddings, ix_result>>
    /\ UNCHANGED pre

\* variant: the label of every matched record is listed, repeated or not
GetRelevantSources_every_label ==
    /\ pc = "SOURCES"
    /\ \E resp \in EmbedResponses :
        LET r  == embed_text(dimension, resp)
            se == search_error(vectorstore, r.value)
        IN  /\ dimension' = r.dim
            /\ last_embedding_len' = IF r.raised THEN last_embedding_len ELSE Len(r.value)
            /\ IF r.raised
               THEN /\ calls' = Append(calls, "embed_text")
                    /\ QueryRaise("get_relevant_sources", r.error)
                    /\ UNCHANGED sources
               ELSE IF se # ""
               THEN /\ calls' = calls \o <<"embed_text", "search">>
                    /\ QueryRaise("get_relevant_sources", se)
                    /\ UNCHANGED sources
               ELSE /\ calls' = calls \o <<"embed_text", "search">>
                    /\ sources' = LET rs == search(vectorstore, r.value, top_k)
                                  IN  [i \in 1..Len(rs) |-> rs[i].source]
                    /\ pc' = "CONTEXT_BUILT"
                    /\ UNCHANGED <<exc, outcome, result>>
    /\ UNCHANGED <<is_loaded, vectorstore, disk, op, qargs, context, messages,
                   yandex_messages, ixargs, embeddings, ix_result>>
    /\ UNCHANGED pre

\* variant: a failure of the source lookup is swallowed and the query goes on
GetRelevantSources_degrades ==
    /\ pc = "SOURCES"
    /\ \E resp \in EmbedResponses :
        LET r  == embed_text(dimension, resp)
            se == search_error(vectorstore, r.value)
        IN  /\ dimension' = r.dim
            /\ last_embedding_len' = IF r.raised THEN last_embedding_len ELSE Len(r.value)
            /\ calls' = IF r.raised THEN Append(calls, "embed_text")
                        ELSE calls \o <<"embed_text", "search">>
            /\ sources' = IF r.raised \/ se # "" THEN <<>>
                          ELSE get_relevant_sources(search(vectorstore, r.value, top_k))
            /\ pc' = "CONTEXT_BUILT"
            /\ UNCHANGED <<exc, outcome, result>>
    /\ UNCHANGED <<is_loaded, vectorstore, disk, op, qargs, context, messages,
                   yandex_messages, ixargs, embeddings, ix_result>>
    /\ UNCHANGED pre

\* Step 2: sources = self.retriever.get_relevant_sources(query, top_k)
GetRelevantSources ==
    /\ pc = "SOURCES"
    /\ \E resp \in EmbedResponses :
        LET r  == embed_text(dimension, resp)
            se == search_error(vectorstore, r.value)
        IN  /\ dimension' = r.dim
            /\ last_embedding_len' = IF r.raised THEN last_embedding_len ELSE Len(r.value)
            /\ IF r.raised
               THEN /\ calls' = Append(calls, "embed_text")
                    /\ QueryRaise("get_relevant_sources", r.error)
                    /\ UNCHANGED sources
               ELSE IF se # ""
               THEN /\ calls' = calls \o <<"embed_text", "search">>
                    /\ QueryRaise("get_relevant_sources", se)
                    /\ UNCHANGED sources
               ELSE /\ calls' = calls \o <<"embed_text", "search">>
                    /\ sources' = get_relevant_sources(search(vectorstore, r.value, top_k))
                    /\ pc' = "CONTEXT_BUILT"
                    /\ UNCHANGED <<exc, outcome, result>>
    /\ UNCHANGED <<is_loaded, vectorstore, disk, op, qargs, context, messages,
                   yandex_messages, ixargs, embeddings, ix_result>>
    /\ UNCHANGED pre

\* variant: the caller's list is cut down to the recent entries in place
MergeHistory_truncates_in_place ==
    /\ pc = "CONTEXT_BUILT"
    /\ history' = recent_history(history)
    /\ messages' = BuildMessages(history, context, query)
    /\ pc' = "HISTORY_MERGED"
    /\ UNCHANGED <<persistent, op, query, top_k, context, sources, yandex_messages,
                   ixargs, embeddings, exc, outcome, result, ix_result, calls>>
    /\ UNCHANGED <<last_embedding_len, pre>>

\* Steps 3 and 4: the prompt with context and the message sequence
MergeHistory ==
    /\ pc = "CONTEXT_BUILT"
    /\ messages' = BuildMessages(history, context, query)
    /\ pc' = "HISTORY_MERGED"
    /\ UNCHANGED <<persistent, op, qargs, context, sources, yandex_messages,
                   ixargs, embeddings, exc, outcome, result, ix_result, calls>>
    /\ UNCHANGED <<last_embedding_len, pre>>

\* Step 5: self.llm.generate_completion(messages, ...) sends its request
Generate ==
    /\ pc = "HISTORY_MERGED"
    /\ yandex_messages' = YandexMessages(messages)
    /\ calls' = Append(calls, "generate_completion")
    /\ pc' = "GENERATING"
    /\ UNCHANGED <<persistent, op, qargs, context, sources, messages,
                   ixargs, embeddings, exc, outcome, result, ix_result>>
    /\ UNCHANGED <<last_embedding_len, pre>>

\* variant: a failed completion call is sent once more
CompletionResponse_retry ==
    /\ pc = "GENERATING"
    /\ \E resp \in CompletionResponses :
        LET r == generate_completion(resp)
        IN  IF r.raised /\ Len(calls) < 6
            THEN /\ calls' = Append(calls, "generate_completion")
                 /\ UNCHANGED <<pc, exc, outcome, result>>
            ELSE IF r.raised
            THEN /\ QueryRaise("generate_completion", r.error)
                 /\ UNCHANGED calls
            ELSE /\ pc' = "DONE"
                 /\ outcome' = "returned"
                 /\ result' = DoneResult(r.value, context, sources, query)
                 /\ UNCHANGED <<exc, calls>>
    /\ UNCHANGED <<persistent, op, qargs, qlocals, ixargs, embeddings, ix_result>>
    /\ UNCHANGED <<last_embedding_len, pre>>

\* variant: the request carries no timeout and the call never returns
CompletionResponse_hangs ==
    /\ pc = "GENERATING"
    /\ pc' = "GENERATING"
    /\ UNCHANGED <<persistent, op, qargs, qlocals, ixargs, embeddings, exc,
                   outcome, result, ix_result, calls, last_embedding_len, pre>>

\* the completion service answers, fails or times out
CompletionResponse ==
    /\ pc = "GENERATING"
    /\ \E resp \in CompletionResponses :
        LET r == generate_completion(resp)
        IN  IF r.raised
            THEN QueryRaise("generate_completion", r.error)
            ELSE /\ pc' = "DONE"
                 /\ outcome' = "returned"
                 /\ result' = DoneResult(r.value, context, sources, query)
                 /\ UNCHANGED exc
    /\ UNCHANGED <<persistent, op, qargs, qlocals, ixargs, embeddings,
                   ix_result, calls>>
    /\ UNCHANGED <<last_embedding_len, pre>>

(***************************************************************************)
(* RAGPipeline.index_documents, step by step.                              *)
(***************************************************************************)
\* variant: the index is recreated before the documents are embedded
IndexDocuments_creates_first ==
    /\ pc = "idle"
    /\ \E b \in DocBatches :
        /\ documents' = b[1]
        /\ doc_sources' = b[2]
    /\ pc' = "IX_EMBED"
    /\ op' = "index_documents"
    /\ embeddings' = <<>>
    /\ exc' = NoExc
    /\ outcome' = "none"
    /\ ix_result' = FALSE
    /\ vectorstore' = create_index(get_embedding_dimension)
    /\ calls' = <<"create_index">>
    /\ query' = ""
    /\ history' = <<>>
    /\ top_k' = TOP_K_RESULTS
    /\ context' = ""
    /\ sources' = <<>>
    /\ messages' = <<>>
    /\ yandex_messages' = <<>>
    /\ result' = EmptyResult
    /\ UNCHANGED <<is_loaded, disk, dimension>>
    /\ pre' = [is_loaded |-> is_loaded, vectorstore |-> vectorstore, disk |-> disk]
    /\ UNCHANGED last_embedding_len

IndexDocuments ==
    /\ pc = "idle"
    /\ \E b \in DocBatches :
        /\ documents' = b[1]
        /\ doc_sources' = b[2]
    /\ pc' = "IX_EMBED"
    /\ op' = "index_documents"
    /\ embeddings' = <<>>
    /\ exc' = NoExc
    /\ outcome' = "none"
    /\ ix_result' = FALSE
    /\ calls' = <<>>
    /\ query' = ""
    /\ history' = <<>>
    /\ top_k' = TOP_K_RESULTS
    /\ context' = ""
    /\ sources' = <<>>
    /\ messages' = <<>>
    /\ yandex_messages' = <<>>
    /\ result' = EmptyResult
    /\ UNCHANGED persistent
    /\ pre' = [is_loaded |-> is_loaded, vectorstore |-> vectorstore, disk |-> disk]
    /\ UNCHANGED last_embedding_len

\* an exception reaches the except clause of index_documents
IndexRaise(w, e) ==
    /\ pc' = "IX_FAILED"
    /\ exc' = [where |-> w, detail |-> e]
    /\ outcome' = IndexExcept(e).outcome
    /\ ix_result' = IndexExcept(e).value

\* variant: a failed embedding call is sent once more before giving up
EmbedNext_retry ==
    /\ pc = "IX_EMBED"
    /\ Len(embeddings) < Len(documents)
    /\ \E resp \in EmbedResponses :
        LET r == embed_text(dimension, resp)
        IN  /\ dimension' = r.dim
            /\ last_embedding_len' = IF r.raised THEN last_embedding_len ELSE Len(r.value)
            /\ calls' = Append(calls, "embed_text")
            /\ IF r.raised /\ Len(calls) = Len(embeddings)
               THEN UNCHANGED <<embeddings, pc, exc, outcome, ix_result>>
               ELSE IF r.raised
               THEN /\ IndexRaise("embed_texts", r.error)
                    /\ UNCHANGED embeddings
               ELSE /\ embeddings' = Append(embeddings, r.value)
                    /\ UNCHANGED <<pc, exc, outcome, ix_result>>
    /\ UNCHANGED <<is_loaded, vectorstore, disk, op, qargs, qlocals, ixargs, result>>
    /\ UNCHANGED pre

\* Step 1, one turn of the loop of embed_texts: embed_text(text)
EmbedNext ==
    /\ pc = "IX_EMBED"
    /\ Len(embeddings) < Len(documents)
    /\ \E resp \in EmbedResponses :
        LET r == embed_text(dimension, resp)
        IN  /\ dimension' = r.dim
            /\ last_embedding_len' = IF r.raised THEN last_embedding_len ELSE Len(r.value)
            /\ calls' = Append(calls, "embed_text")
            /\ IF r.raised
               THEN /\ IndexRaise("embed_texts", r.error)
                    /\ UNCHANGED embeddings
               ELSE /\ embeddings' = Append(embeddings, r.value)
                    /\ UNCHANGED <<pc, exc, outcome, ix_result>>
    /\ UNCHANGED <<is_loaded, vectorstore, disk, op, qargs, qlocals, ixargs, result>>
    /\ UNCHANGED pre

\* variant: the index is always created with the default dimension
CreateIndex_default_dimension ==
    /\ pc = "IX_EMBED"
    /\ Len(embeddings) = Len(documents)
    /\ vectorstore' = create_index(DEFAULT_DIMENSION)
    /\ calls' = Append(calls, "create_index")
    /\ pc' = "IX_ADD"
    /\ UNCHANGED <<is_loaded, disk, dimension, op, qargs, qlocals, ixargs,
                   embeddings, exc, outcome, result, ix_result>>
    /\ UNCHANGED <<last_embedding_len, pre>>

\* Step 2: self.vectorstore.create_index(self.embedder.get_embedding_dimension())
CreateIndex ==
    /\ pc = "IX_EMBED"
    /\ Len(embeddings) = Len(documents)
    /\ vectorstore' = create_index(get_embedding_dimension)
    /\ calls' = Append(calls, "create_index")
    /\ pc' = "IX_ADD"
    /\ UNCHANGED <<is_loaded, disk, dimension, op, qargs, qlocals, ixargs,
                   embeddings, exc, outcome, result, ix_result>>
    /\ UNCHANGED <<last_embedding_len, pre>>

\* variant: the pipeline is marked loaded as soon as the documents are appended
AddDocuments_marks_loaded ==
    /\ pc = "IX_ADD"
    /\ calls' = Append(calls, "add_documents")
    /\ LET e == add_error(vectorstore, documents, embeddings, doc_sources)
       IN  IF e # ""
           THEN /\ IndexRaise("add_documents", e)
                /\ UNCHANGED <<vectorstore, is_loaded>>
           ELSE /\ vectorstore' = add_documents(vectorstore, documents, embeddings,
                                                doc_sources)
                /\ is_loaded' = TRUE
                /\ pc' = "IX_SAVE"
                /\ UNCHANGED <<exc, outcome, ix_result>>
    /\ UNCHANGED <<disk, dimension, op, qargs, qlocals, ixargs, embeddings, result>>
    /\ UNCHANGED <<last_embedding_len, pre>>

\* Step 3: self.vectorstore.add_documents(documents, embeddings, sources)
AddDocuments ==
    /\ pc = "IX_ADD"
    /\ calls' = Append(calls, "add_documents")
    /\ LET e == add_error(vectorstore, documents, embeddings, doc_sources)
       IN  IF e # ""
           THEN /\ IndexRaise("add_documents", e)
                /\ UNCHANGED vectorstore
           ELSE /\ vectorstore' = add_documents(vectorstore, documents, embeddings,
                                                doc_sources)
                /\ pc' = "IX_SAVE"
                /\ UNCHANGED <<exc, outcome, ix_result>>
    /\ UNCHANGED <<is_loaded, disk, dimension, op, qargs, qlocals, ixargs,
                   embeddings, result>>
    /\ UNCHANGED <<last_embedding_len, pre>>

\* variant: a failed save marks the pipeline as not loaded
Save_clears_loaded ==
    /\ pc = "IX_SAVE"
    /\ calls' = Append(calls, "save")
    /\ \E ok \in BOOLEAN :
        IF ok
        THEN /\ disk' = vectorstore
             /\ pc' = "IX_MARK"
             /\ UNCHANGED <<exc, outcome, ix_result, is_loaded>>
        ELSE /\ IndexRaise("save", SAVE_ERROR)
             /\ is_loaded' = FALSE
             /\ UNCHANGED disk
    /\ UNCHANGED <<vectorstore, dimension, op, qargs, qlocals, ixargs,
                   embeddings, result>>
    /\ UNCHANGED <<last_embedding_len, pre>>

\* Step 4: self.vectorstore.save(), which writes the index or fails
Save ==
    /\ pc = "IX_SAVE"
    /\ calls' = Append(calls, "save")
    /\ \E ok \in BOOLEAN :
        IF ok
        THEN /\ disk' = vectorstore
             /\ pc' = "IX_MARK"
             /\ UNCHANGED <<exc, outcome, ix_result>>
        ELSE /\ IndexRaise("save", SAVE_ERROR)
             /\ UNCHANGED disk
    /\ UNCHANGED <<is_loaded, vectorstore, dimension, op, qargs, qlocals, ixargs,
                   embeddings, result>>
    /\ UNCHANGED <<last_embedding_len, pre>>

\* self.is_loaded = True; return True
MarkLoaded ==
    /\ pc = "IX_MARK"
    /\ is_loaded' = TRUE
    /\ ix_result' = TRUE
    /\ outcome' = "returned"
    /\ pc' = "IX_DONE"
    /\ UNCHANGED <<vectorstore, disk, dimension, op, qargs, qlocals, ixargs,
                   embeddings, exc, result, calls>>
    /\ UNCHANGED <<last_embedding_len, pre>>

(***************************************************************************)
(* RAGPipeline.get_stats and RAGPipeline.process_image: each reads and     *)
(* returns in one step.                                                    *)
(***************************************************************************)
YANDEX_EMBED_MODEL == "text-search-doc"
VISION_MODEL       == "Ne nastroen"
API_PROVIDER       == "Yandex Cloud"
NoneValue          == "None"
EXTRACTED_TEXT     == "Funktsiya raspoznavaniya teksta s izobrazhenij vremenno nedostupna."
RAG_ANSWER_STUB    == "Dlya otveta na vopros trebuetsya funktsional raspoznavaniya teksta."
VISION_ERROR       == "Vision API ne nastroen"

\* the query argument of process_image; "" stands for the default None
ImageQueries == {"", "capital of France"}

\* FAISSVectorStore.get_stats: record count, dimension and whether loaded
vectorstore_get_stats(vs) ==
    [record_count |-> Len(vs.records), dimension |-> vs.dimension,
     is_loaded |-> vs.present]

\* stats of the vector store, updated with the fields of the pipeline
get_stats ==
    [record_count |-> vectorstore_get_stats(vectorstore).record_count,
     dimension    |-> vectorstore_get_stats(vectorstore).dimension,
     is_loaded    |-> is_loaded,
     embed_model  |-> "Yandex " \o YANDEX_EMBED_MODEL,
     chat_model   |-> YANDEX_GPT_MODEL,
     vision_model |-> VISION_MODEL,
     api_provider |-> API_PROVIDER]

\* YandexGPT.process_image, a stub that sends no request
process_image(q) ==
    [extracted_text |-> EXTRACTED_TEXT,
     rag_answer     |-> IF q = "" THEN NoneValue ELSE RAG_ANSWER_STUB,
     error          |-> VISION_ERROR]

GetStats ==
    /\ pc = "idle"
    /\ op' = "get_stats"
    /\ result' = get_stats
    /\ outcome' = "returned"
    /\ pc' = "STATS_DONE"
    /\ UNCHANGED <<persistent, qargs, qlocals, ixargs, embeddings, exc,
                   ix_result, calls, last_embedding_len, pre>>

ProcessImage ==
    /\ pc = "idle"
    /\ \E q \in ImageQueries :
        /\ query' = q
        /\ result' = process_image(q)
    /\ op' = "process_image"
    /\ outcome' = "returned"
    /\ pc' = "IMAGE_DONE"
    /\ UNCHANGED <<persistent, history, top_k, qlocals, ixargs, embeddings, exc,
                   ix_result, calls, last_embedding_len, pre>>

(***************************************************************************)
(* The embedder of the pipeline called on its own, while no query and no   *)
(* indexing run is under way: YandexEmbedder.test_connection and           *)
(* YandexEmbedder.embed_text.  A direct embed_texts is a sequence of such  *)
(* embed_text calls that stops at the first failure.                       *)
(***************************************************************************)
TEST_TEXT == "test"

\* test_connection compares the vector with _dimension after embed_text set it
test_connection(dim, resp) ==
    LET r == embed_text(dim, resp)
    IN  [value |-> IF r.raised THEN FALSE ELSE Len(r.value) = r.dim,
         dim   |-> r.dim,
         error |-> r.error]

TestConnection ==
    /\ pc = "idle"
    /\ \E resp \in EmbedResponses :
        LET r == embed_text(dimension, resp)
            t == test_connection(dimension, resp)
        IN  /\ dimension' = t.dim
            /\ last_embedding_len' = IF r.raised THEN last_embedding_len ELSE Len(r.value)
            /\ exc' = IF r.raised
                      THEN [where |-> "test_connection", detail |-> t.error]
                      ELSE NoExc
            /\ result' = [value |-> t.value]
    /\ query' = TEST_TEXT
    /\ calls' = <<"embed_text">>
    /\ op' = "test_connection"
    /\ outcome' = "returned"
    /\ pc' = "TEST_DONE"
    /\ UNCHANGED <<is_loaded, vectorstore, disk, history, top_k, qlocals, ixargs,
                   embeddings, ix_result, pre>>

EmbedText ==
    /\ pc = "idle"
    /\ \E q \in Queries, resp \in EmbedResponses :
        LET r == embed_text(dimension, resp)
        IN  /\ query' = q
            /\ dimension' = r.dim
            /\ last_embedding_len' = IF r.raised THEN last_embedding_len ELSE Len(r.value)
            /\ exc' = IF r.raised
                      THEN [where |-> "embed_text", detail |-> r.error]
                      ELSE NoExc
            /\ outcome' = IF r.raised THEN "raised" ELSE "returned"
            /\ result' = [value |-> r.value]
    /\ calls' = <<"embed_text">>
    /\ op' = "embed_text"
    /\ pc' = "EMBED_DONE"
    /\ UNCHANGED <<is_loaded, vectorstore, disk, history, top_k, qlocals, ixargs,
                   embeddings, ix_result, pre>>

(***************************************************************************)
(* The operation hands its result to the caller and its frame is dropped.  *)
(***************************************************************************)
QueryTerminal == {"NOT_LOADED", "DONE", "FAILED"}
IndexTerminal == {"IX_DONE", "IX_FAILED"}
ReadTerminal  == {"STATS_DONE", "IMAGE_DONE"}
EmbedderTerminal == {"TEST_DONE", "EMBED_DONE"}

Return ==
    /\ pc \in QueryTerminal \cup IndexTerminal \cup ReadTerminal \cup EmbedderTerminal
    /\ pc' = "idle"
    /\ op' = "none"
    /\ query' = ""
    /\ history' = <<>>
    /\ top_k' = TOP_K_RESULTS
    /\ documents' = <<>>
    /\ doc_sources' = <<>>
    /\ embeddings' = <<>>
    /\ context' = ""
    /\ sources' = <<>>
    /\ messages' = <<>>
    /\ yandex_messages' = <<>>
    /\ exc' = NoExc
    /\ outcome' = "none"
    /\ result' = EmptyResult
    /\ ix_result' = FALSE
    /\ calls' = <<>>
    /\ pre' = [is_loaded |-> is_loaded, vectorstore |-> vectorstore, disk |-> disk]
    /\ UNCHANGED <<persistent, last_embedding_len>>

Next ==
    \/ Query
    \/ QueryWithHistory
    \/ CheckLoaded
    \/ RetrieveContext
    \/ GetRelevantSources
    \/ MergeHistory
    \/ Generate
    \/ CompletionResponse
    \/ IndexDocuments
    \/ EmbedNext
    \/ CreateIndex
    \/ AddDocuments
    \/ Save
    \/ MarkLoaded
    \/ GetStats
    \/ ProcessImage
    \/ TestConnection
    \/ EmbedText
    \/ Return

Spec == Init /\ [][Next]_vars

\* The call chain is synchronous and every outbound call carries a timeout
\* (REQUEST_TIMEOUT), so a started query keeps taking its next step.
QueryStep ==
    \/ CheckLoaded
    \/ RetrieveContext
    \/ GetRelevantSources
    \/ MergeHistory
    \/ Generate
    \/ CompletionResponse

FairSpec == Spec /\ WF_vars(QueryStep)

TypeOK ==
    /\ is_loaded \in BOOLEAN
    /\ pc \in {"idle", "START", "RETRIEVE", "SOURCES", "CONTEXT_BUILT",
               "HISTORY_MERGED", "GENERATING"} \cup QueryTerminal
              \cup {"IX_EMBED", "IX_ADD", "IX_SAVE", "IX_MARK"} \cup IndexTerminal
              \cup ReadTerminal \cup EmbedderTerminal
    /\ outcome \in {"none", "returned", "raised"}
    /\ ix_result \in BOOLEAN

(***************************************************************************)
(* Vocabulary of the properties.                                           *)
(***************************************************************************)
QueryOps == {"query", "query_with_history"}

Count(seq, x) == Cardinality({i \in 1..Len(seq) : seq[i] = x})

Called(x) == \E i \in 1..Len(calls) : calls[i] = x

\* the operation is about to hand its result to the caller
QueryEnded == op \in QueryOps /\ pc \in QueryTerminal
IndexEnded == op = "index_documents" /\ pc \in IndexTerminal

\* the calls of a complete indexing run of the current batch
IndexCalls ==
    [i \in 1..Len(documents) |-> "embed_text"]
        \o <<"create_index", "add_documents", "save">>

\* the calls of a query whose two retrieval steps completed
RetrievalCalls == <<"embed_text", "search", "embed_text", "search">>

\* the entries of messages between the system entry and the current question
Forwarded == SubSeq(messages, 2, Len(messages) - 1)

\* h1 and h2 both hold at least m entries and agree on their last m entries
AgreeOnLast(h1, h2, m) ==
    /\ Len(h1) >= m
    /\ Len(h2) >= m
    /\ \A i \in 1..m : h1[Len(h1) - m + i] = h2[Len(h2) - m + i]

\* histories that differ from h in entries older than the last m
OlderVariants(h, m) ==
    {<<[role |-> "assistant", content |-> "older"]>> \o h}
    \cup (IF Len(h) > m THEN {[h EXCEPT ![1].content = "changed"], Tail(h)} ELSE {})

(***************************************************************************)
(* C1: after an index_documents call that returned False, is_loaded is     *)
(* never true while the in-memory index is the index created by that       *)
(* failed run (created by the run and not persisted by it).                *)
(***************************************************************************)
C1_NoPartialIndexMarkedLoaded ==
    (IndexEnded /\ outcome = "returned" /\ ~ix_result /\ Called("create_index"))
        => ~is_loaded

(***************************************************************************)
(* C2: a query never raises to its caller; when a client or the index      *)
(* raised during the flow, the result is the error prefix followed by the  *)
(* failure detail, with empty context and empty sources.                   *)
(***************************************************************************)
C2_QueryNeverRaises ==
    op \in QueryOps =>
        /\ outcome # "raised"
        /\ exc # NoExc =>
            /\ pc = "FAILED"
            /\ outcome = "returned"
            /\ result.answer = ERROR_PREFIX \o exc.detail
            /\ result.context = ""
            /\ result.sources = <<>>

C2_Witness ==
    /\ pc = "FAILED"
    /\ op = "query_with_history"
    /\ Called("generate_completion")
    /\ exc = [where |-> "generate_completion", detail |-> HTTP_ERROR]
    /\ context # ""
    /\ history # <<>>

(***************************************************************************)
(* C3: a query started while is_loaded is false returns the not-loaded     *)
(* answer with empty context and empty sources, and does not raise.        *)
(***************************************************************************)
C3_NotLoadedResponse ==
    [][(pc = "START" /\ ~is_loaded) =>
        /\ pc' = "NOT_LOADED"
        /\ outcome' = "returned"
        /\ result'.answer = NOT_LOADED_ANSWER
        /\ result'.context = ""
        /\ result'.sources = <<>>]_vars

C3_Witness ==
    /\ pc = "NOT_LOADED"
    /\ op = "query_with_history"
    /\ history # <<>>
    /\ result.answer = NOT_LOADED_ANSWER

(***************************************************************************)
(* C4: while no index is loaded, a query makes no call to the embedding    *)
(* client, to the index search or to the completion client, from its       *)
(* start to its return.                                                    *)
(***************************************************************************)
C4_NotLoadedMakesNoCall ==
    (op \in QueryOps /\ ~is_loaded) =>
        /\ calls = <<>>
        /\ yandex_messages = <<>>

C4_Witness ==
    /\ pc = "NOT_LOADED"
    /\ op = "query"
    /\ ~is_loaded
    /\ outcome = "returned"
    /\ calls = <<>>

(***************************************************************************)
(* C5: only the most recent 2 x MAX_HISTORY_LENGTH history entries are     *)
(* forwarded to generation; a shorter history is forwarded in full, and a  *)
(* history that agrees with the given one on its last                      *)
(* 2 x MAX_HISTORY_LENGTH entries yields the same message sequence.        *)
(***************************************************************************)
C5_OnlyRecentHistoryForwarded ==
    (op \in QueryOps /\ messages # <<>>) =>
        LET m == 2 * MAX_HISTORY_LENGTH
            n == Min(Len(history), m)
        IN  /\ Len(Forwarded) = n
            /\ \A i \in 1..n : Forwarded[i] = history[Len(history) - n + i]
            /\ \A h2 \in OlderVariants(history, m) :
                   AgreeOnLast(h2, history, m)
                       => BuildMessages(h2, context, query) = messages

C5_Witness ==
    /\ pc = "GENERATING"
    /\ Len(history) > 2 * MAX_HISTORY_LENGTH
    /\ \E h2 \in OlderVariants(history, 2 * MAX_HISTORY_LENGTH) :
           h2 # history /\ AgreeOnLast(h2, history, 2 * MAX_HISTORY_LENGTH)

(***************************************************************************)
(* C6: the message sequence handed to the completion client is the system  *)
(* instruction, then history entries in their original relative order,     *)
(* then the user entry holding the template filled with context and query; *)
(* it has at most 2 x MAX_HISTORY_LENGTH + 2 entries.                      *)
(***************************************************************************)
C6_MessageSequenceShape ==
    (op \in QueryOps /\ Called("generate_completion")) =>
        LET n == Len(messages)
        IN  /\ n >= 2
            /\ n <= 2 * MAX_HISTORY_LENGTH + 2
            /\ messages[1] = [role |-> "system", content |-> SYSTEM_PROMPT]
            /\ messages[n] = [role |-> "user",
                              content |-> RAG_PROMPT_TEMPLATE(context, query)]
            /\ \A i \in 2..(n - 1) : \E a \in 1..Len(history) :
                   /\ history[a] = messages[i]
                   /\ i + 1 <= n - 1 =>
                        (a + 1 <= Len(history) /\ history[a + 1] = messages[i + 1])

C6_Witness ==
    /\ pc = "GENERATING"
    /\ Len(messages) = 2 * MAX_HISTORY_LENGTH + 2
    /\ context # ""

(***************************************************************************)
(* C7: index_documents runs embed all documents, create the index with the *)
(* embedder's dimension, append the documents in the given order, save and *)
(* mark loaded, in that order; a step starts only when the steps before it *)
(* completed without raising, and is_loaded becomes true only after save   *)
(* returned without error.                                                 *)
(***************************************************************************)
C7_IndexStepsInOrder ==
    /\ [](op = "index_documents" =>
            /\ Len(calls) <= Len(IndexCalls)
            /\ calls = SubSeq(IndexCalls, 1, Len(calls))
            /\ pc = "IX_ADD" => vectorstore = create_index(dimension)
            /\ pc \in {"IX_SAVE", "IX_MARK", "IX_DONE"} =>
                /\ Len(vectorstore.records) = Len(documents)
                /\ \A i \in 1..Len(documents) :
                       /\ vectorstore.records[i].text = documents[i]
                       /\ vectorstore.records[i].vector = embeddings[i]
            /\ pc \in {"IX_MARK", "IX_DONE"} =>
                (calls = IndexCalls /\ exc = NoExc /\ disk = vectorstore))
    /\ [][(op' = "index_documents" /\ ~is_loaded /\ is_loaded') =>
            (pc = "IX_MARK" /\ calls = IndexCalls /\ exc = NoExc)]_vars
    /\ [][(op = "index_documents" /\ exc # NoExc /\ pc' # "idle") => calls' = calls]_vars

C7_Witness ==
    /\ pc = "IX_DONE"
    /\ Len(documents) = 3
    /\ is_loaded
    /\ calls = IndexCalls

(***************************************************************************)
(* C8: index_documents never raises; it returns True exactly when          *)
(* embedding, index creation, append and save all completed without an     *)
(* exception, and False when one of these steps raised.                    *)
(***************************************************************************)
C8_IndexReportsByBoolean ==
    op = "index_documents" =>
        /\ outcome # "raised"
        /\ exc # NoExc => (pc = "IX_FAILED" /\ outcome = "returned")
        /\ outcome = "returned" =>
            /\ ix_result <=> (exc = NoExc /\ calls = IndexCalls)
            /\ ~ix_result <=> exc # NoExc

C8_Witness ==
    /\ pc = "IX_FAILED"
    /\ exc = [where |-> "save", detail |-> SAVE_ERROR]
    /\ outcome = "returned"
    /\ ~ix_result
    /\ Len(documents) = 3

(***************************************************************************)
(* C9 as stated: every query, in any state, makes at least one call to the *)
(* embedding client and exactly one call to the completion client.         *)
(***************************************************************************)
C9_EveryQueryCallsBothClients ==
    QueryEnded =>
        /\ Count(calls, "embed_text") >= 1
        /\ Count(calls, "generate_completion") = 1

(***************************************************************************)
(* C9 amended: a query on a loaded pipeline makes at least one call to the *)
(* embedding client, and exactly one call to the completion client when    *)
(* both retrieval steps succeeded and none when one of them failed; a      *)
(* query on a pipeline that is not loaded makes no outbound call.          *)
(***************************************************************************)
C9_CallsPerQuery ==
    QueryEnded =>
        IF is_loaded
        THEN /\ Count(calls, "embed_text") >= 1
             /\ Count(calls, "generate_completion") =
                    (IF exc.where \in {"retrieve_context", "get_relevant_sources"}
                     THEN 0 ELSE 1)
        ELSE calls = <<>>

C9_Witness ==
    /\ pc = "DONE"
    /\ Count(calls, "embed_text") = 2
    /\ Count(calls, "generate_completion") = 1

(***************************************************************************)
(* C10: the completion client is called only after retrieve_context and    *)
(* get_relevant_sources both returned without error; when one of them      *)
(* raises, the completion client is not called in that query.              *)
(***************************************************************************)
C10_GenerationAfterRetrieval ==
    /\ [](op \in QueryOps =>
            /\ Called("generate_completion") =>
                   calls = Append(RetrievalCalls, "generate_completion")
            /\ pc = "GENERATING" => exc = NoExc
            /\ exc.where \in {"retrieve_context", "get_relevant_sources"}
                   => ~Called("generate_completion"))
    /\ [][(op' \in QueryOps /\ Called("generate_completion")'
              /\ ~(op = op' /\ Called("generate_completion")))
            => (pc = "HISTORY_MERGED" /\ calls = RetrievalCalls /\ exc = NoExc)]_vars

C10_Witness ==
    /\ pc = "GENERATING"
    /\ context # ""
    /\ sources # <<>>
    /\ calls = Append(RetrievalCalls, "generate_completion")

(***************************************************************************)
(* C11: no outbound call is repeated.  A query calls the completion client *)
(* at most once; embed_texts sends each text of the batch at most once and *)
(* sends nothing after the first failed embedding call; a failed call ends *)
(* the query or the indexing run that made it.                             *)
(***************************************************************************)
C11_NoRetry ==
    /\ [](/\ op \in QueryOps =>
                /\ Count(calls, "generate_completion") <= 1
                /\ exc # NoExc => pc = "FAILED"
          /\ op = "index_documents" =>
                /\ Count(calls, "embed_text") <= Len(documents)
                /\ Count(calls, "embed_text") =
                       Len(embeddings) + (IF exc.where = "embed_texts" THEN 1 ELSE 0)
                /\ exc # NoExc => pc = "IX_FAILED"
          /\ op \in {"test_connection", "embed_text"} => calls = <<"embed_text">>)
    /\ [][(exc # NoExc /\ pc' # "idle") => calls' = calls]_vars

C11_Witness ==
    /\ pc = "IX_FAILED"
    /\ exc.where = "embed_texts"
    /\ Len(documents) = 3
    /\ Len(embeddings) = 1
    /\ calls = <<"embed_text", "embed_text">>

(***************************************************************************)
(* C12: get_embedding_dimension returns the length of the vector of the    *)
(* most recent successful embed_text call, or the default 256 when no call *)
(* has succeeded yet; a failed call (transport error or response without   *)
(* the embedding field) leaves the reported dimension unchanged.           *)
(***************************************************************************)
C12_DimensionReflectsLastResponse ==
    /\ [](get_embedding_dimension =
            (IF last_embedding_len = 0 THEN DEFAULT_DIMENSION ELSE last_embedding_len))
    /\ [][(exc' # exc
             /\ exc'.where \in {"retrieve_context", "get_relevant_sources", "embed_texts",
                              "test_connection", "embed_text"}
             /\ exc'.detail \in {BAD_FORMAT, HTTP_ERROR})
            => dimension' = dimension]_vars

C12_Witness ==
    /\ pc = "IX_FAILED"
    /\ exc = [where |-> "embed_texts", detail |-> BAD_FORMAT]
    /\ Len(embeddings) = 2
    /\ Len(embeddings[1]) = 2
    /\ Len(embeddings[2]) = 1
    /\ dimension = 1

(***************************************************************************)
(* C13: the message list sent to the completion service has no entry with  *)
(* role system, has as many entries as the input and in the same order;    *)
(* each system entry becomes a user entry carrying the system content, and *)
(* every other entry keeps its role and its content.                       *)
(***************************************************************************)
C13_SystemEntriesTranslated ==
    (op \in QueryOps /\ Called("generate_completion")) =>
        /\ Len(yandex_messages) = Len(messages)
        /\ \A i \in 1..Len(messages) :
            LET m == messages[i]
                y == yandex_messages[i]
            IN  /\ y.role # "system"
                /\ DOMAIN y = {"role", "text"}
                /\ IF m.role = "system"
                   THEN /\ y.role = "user"
                        /\ Len(y.text) >= Len(m.content)
                        /\ SubSeq(y.text, Len(y.text) - Len(m.content) + 1, Len(y.text))
                               = m.content
                   ELSE /\ y.role = m.role
                        /\ y.text = m.content

C13_Witness ==
    /\ pc = "GENERATING"
    /\ history = SystemHistory
    /\ Count([i \in 1..Len(messages) |-> messages[i].role], "system") = 2
    /\ Len(yandex_messages) = 4

(***************************************************************************)
(* C14: a response of unrecognized shape is an upstream failure like any   *)
(* other.  A response without the embedding field never yields a vector    *)
(* and a response without result/alternatives never yields an answer; the  *)
(* query in which either happens ends FAILED with the error-prefixed       *)
(* answer, empty context and empty sources, as for a transport failure.    *)
(***************************************************************************)
C14_MalformedResponseIsFailure ==
    /\ (op \in QueryOps /\ exc.detail \in {BAD_FORMAT, HTTP_ERROR}) =>
            /\ pc = "FAILED"
            /\ outcome = "returned"
            /\ result = [answer |-> ERROR_PREFIX \o exc.detail, context |-> "",
                         sources |-> <<>>, model |-> YANDEX_GPT_MODEL,
                         clean_query |-> query]
    /\ pc = "DONE" =>
            result.answer \in {r.text : r \in {c \in CompletionResponses :
                                                  c.kind = "alternatives"}}
    /\ \A i \in 1..Len(embeddings) : embeddings[i] \in Vectors
    /\ dimension \in {DEFAULT_DIMENSION} \cup {Len(v) : v \in Vectors}

C14_Witness ==
    /\ pc = "FAILED"
    /\ exc = [where |-> "generate_completion", detail |-> BAD_FORMAT]
    /\ context # ""
    /\ result.context = ""

(***************************************************************************)
(* C15: retrieve_context never returns a string longer than max_length, so *)
(* the context of a query, and the context field of its result, has at     *)
(* most MAX_CONTEXT_LENGTH characters whatever the indexed documents are.  *)
(***************************************************************************)
C15_ContextWithinBudget ==
    /\ op \in QueryOps =>
            /\ Len(context) <= MAX_CONTEXT_LENGTH
            /\ Len(result.context) <= MAX_CONTEXT_LENGTH
    /\ pc = "RETRIEVE" =>
            \A v \in Vectors, ml \in {0, 1, 7, MAX_CONTEXT_LENGTH} :
                search_error(vectorstore, v) = ""
                    => Len(retrieve_context(search(vectorstore, v, top_k), ml)) <= ml

C15_Witness ==
    /\ pc = "DONE"
    /\ top_k = 3
    /\ Len(vectorstore.records) = 3
    /\ Len(JoinTexts(vectorstore.records)) > MAX_CONTEXT_LENGTH
    /\ Len(result.context) = MAX_CONTEXT_LENGTH

NoDuplicates(seq) == \A i, j \in 1..Len(seq) : seq[i] = seq[j] => i = j

\* position of the first record of rs carrying label l
FirstPos(rs, l) ==
    CHOOSE i \in 1..Len(rs) : rs[i].source = l /\ \A j \in 1..(i - 1) : rs[j].source # l

\* srcs lists each label of rs once, in first-seen order
FirstSeenOrder(srcs, rs) ==
    /\ {srcs[i] : i \in 1..Len(srcs)} = {rs[i].source : i \in 1..Len(rs)}
    /\ \A i, j \in 1..Len(srcs) :
           i < j => FirstPos(rs, srcs[i]) < FirstPos(rs, srcs[j])

(***************************************************************************)
(* C16: the sources of a query hold no label twice and list the labels of  *)
(* the matched records in the order of the first matched record carrying   *)
(* each label; the sources field of every Query Result has no duplicates.  *)
(***************************************************************************)
C16_SourcesDeduplicated ==
    op \in QueryOps =>
        /\ NoDuplicates(sources)
        /\ NoDuplicates(result.sources)
        /\ pc = "DONE" => result.sources = sources
        /\ pc \in {"CONTEXT_BUILT", "HISTORY_MERGED", "GENERATING", "DONE"} =>
               \E v \in Vectors :
                   /\ Len(v) = last_embedding_len
                   /\ search_error(vectorstore, v) = ""
                   /\ FirstSeenOrder(sources, search(vectorstore, v, top_k))

C16_Witness ==
    /\ pc = "DONE"
    /\ top_k = 3
    /\ Len(vectorstore.records) = 3
    /\ result.sources = <<"de.txt", "fr.txt">>

(***************************************************************************)
(* C17: as every outbound call returns or fails, every started query       *)
(* reaches one of NOT_LOADED, DONE and FAILED.  NOT_LOADED is entered only *)
(* from START with is_loaded false, DONE only from GENERATING with an      *)
(* answer, FAILED only from a state after the loaded check; the only step  *)
(* after an outcome is the return to the caller.                           *)
(***************************************************************************)
C17_QueryTerminates ==
    /\ (pc = "START") ~> (pc \in QueryTerminal)
    /\ [][(pc' = "NOT_LOADED" /\ pc # "NOT_LOADED")
            => (pc = "START" /\ ~is_loaded)]_vars
    /\ [][(pc' = "DONE" /\ pc # "DONE")
            => (pc = "GENERATING" /\ is_loaded /\ exc' = NoExc
                /\ result'.answer # "")]_vars
    /\ [][(pc' = "FAILED" /\ pc # "FAILED")
            => (pc \in {"RETRIEVE", "SOURCES", "CONTEXT_BUILT", "HISTORY_MERGED",
                        "GENERATING"} /\ is_loaded /\ exc' # NoExc)]_vars
    /\ [][(pc \in QueryTerminal) => (pc' = "idle")]_vars

C17_Witness ==
    /\ pc = "FAILED"
    /\ exc.where = "get_relevant_sources"
    /\ context # ""
    /\ history # <<>>

(***************************************************************************)
(* C18: when an embedding call fails during index_documents, create_index, *)
(* add_documents and save are never called; the in-memory index, the       *)
(* persisted index and is_loaded are what they were before the call, and   *)
(* the vectors obtained for the earlier documents are dropped on return.   *)
(***************************************************************************)
C18_EmbedFailureCommitsNothing ==
    /\ [](IndexEnded /\ exc.where = "embed_texts" =>
            /\ pc = "IX_FAILED"
            /\ \A c \in {"create_index", "add_documents", "save"} : ~Called(c)
            /\ Count(calls, "embed_text") = Len(embeddings) + 1
            /\ vectorstore = pre.vectorstore
            /\ disk = pre.disk
            /\ is_loaded = pre.is_loaded
            /\ ix_result = FALSE)
    /\ [][(pc = "IX_FAILED" /\ exc.where = "embed_texts") =>
            (/\ pc' = "idle"
             /\ embeddings' = <<>>
             /\ vectorstore' = vectorstore
             /\ disk' = disk
             /\ is_loaded' = is_loaded)]_vars

C18_Witness ==
    /\ pc = "IX_FAILED"
    /\ exc.where = "embed_texts"
    /\ Len(documents) = 3
    /\ Len(embeddings) = 2
    /\ is_loaded
    /\ Len(vectorstore.records) > 0

(***************************************************************************)
(* C19: a query reads its inputs and the pipeline state without changing   *)
(* them.  From its entry to each of NOT_LOADED, DONE and FAILED the        *)
(* caller's history, is_loaded, the in-memory index (hence its record      *)
(* count) and the persisted index stay what they were at entry.            *)
(***************************************************************************)
C19_QueryIsReadOnly ==
    /\ [](op \in QueryOps =>
            /\ is_loaded = pre.is_loaded
            /\ Len(vectorstore.records) = Len(pre.vectorstore.records)
            /\ vectorstore = pre.vectorstore
            /\ disk = pre.disk)
    /\ [][(op \in QueryOps /\ pc' # "idle") => history' = history]_vars
    /\ [][(op \in QueryOps /\ pc' = "idle") =>
            (/\ is_loaded' = is_loaded
             /\ vectorstore' = vectorstore
             /\ disk' = disk)]_vars

C19_Witness ==
    /\ pc = "DONE"
    /\ op = "query_with_history"
    /\ Len(history) = MaxHistory
    /\ Len(messages) = max_history_items + 2
    /\ Len(vectorstore.records) = 3

(***************************************************************************)
(* C20: on each of NOT_LOADED, DONE and FAILED the returned result has     *)
(* exactly the fields answer, context, sources, model and clean_query;     *)
(* clean_query is the query string passed in and model is the configured   *)
(* completion model name.                                                  *)
(***************************************************************************)
C20_ResultHasFiveFields ==
    (op \in QueryOps /\ pc \in QueryTerminal) =>
        /\ outcome = "returned"
        /\ DOMAIN result = {"answer", "context", "sources", "model", "clean_query"}
        /\ result.clean_query = query
        /\ result.clean_query \in Queries
        /\ result.model = YANDEX_GPT_MODEL

C20_Witness ==
    /\ pc = "DONE"
    /\ op = "query"
    /\ result.clean_query = "capital of France"
    /\ result.context # ""
    /\ top_k = 1

(***************************************************************************)
(* C21: is_loaded is monotonic.  It starts as the result of load() at      *)
(* construction; afterwards it changes only from false to true, and only   *)
(* in the step of index_documents that follows a successful save.  No      *)
(* query, failed index_documents, get_stats or process_image changes it,   *)
(* and nothing ever turns it from true to false.                           *)
(***************************************************************************)
C21_IsLoadedMonotonic ==
    /\ is_loaded = load(disk)
    /\ [][is_loaded => is_loaded']_vars
    /\ [][(is_loaded' # is_loaded) =>
            (/\ op = "index_documents"
             /\ pc = "IX_MARK"
             /\ pc' = "IX_DONE"
             /\ exc = NoExc
             /\ ix_result'
             /\ disk = vectorstore)]_vars
    /\ [](op \in QueryOps \cup {"get_stats", "process_image", "test_connection",
                              "embed_text"} =>
            is_loaded = pre.is_loaded)
    /\ [](op = "index_documents" /\ pc = "IX_FAILED" => is_loaded = pre.is_loaded)
    /\ [](op = "get_stats" => result.is_loaded = is_loaded)

C21_Witness ==
    /\ pc = "IX_FAILED"
    /\ exc.where = "save"
    /\ is_loaded
    /\ pre.is_loaded
    /\ vectorstore # pre.vectorstore

\* index_documents is running on an empty document list and an empty source list
EmptyRun == op = "index_documents" /\ documents = <<>> /\ doc_sources = <<>>

\* the in-memory index is an index of zero records that has been persisted
EmptyIndexLive ==
    /\ vectorstore.present
    /\ vectorstore.records = <<>>
    /\ disk = vectorstore

(***************************************************************************)
(* C22 as stated: index_documents on an empty document list and an empty   *)
(* source list makes no embedding call, creates an index with the          *)
(* embedder's dimension, persists it, sets is_loaded and returns True.     *)
(***************************************************************************)
C22_EmptyBatchAlwaysSucceeds ==
    (EmptyRun /\ pc \in IndexTerminal) =>
        /\ ~Called("embed_text")
        /\ vectorstore = create_index(dimension)
        /\ disk = vectorstore
        /\ is_loaded
        /\ ix_result

(***************************************************************************)
(* C22, amended: index_documents on an empty document list and an empty    *)
(* source list makes no embedding call and creates an index with the       *)
(* embedder's reported dimension (256 if no embedding call ever            *)
(* succeeded); the append cannot fail.  When save returns, the empty index *)
(* is persisted, is_loaded is true and the call returns True; when save    *)
(* raises, the call returns False, the persisted index and is_loaded are   *)
(* what they were and the in-memory index is the new empty one.  While the *)
(* persisted empty index is the one in memory, every query passes the      *)
(* loaded check and goes on to retrieval, which yields an empty context    *)
(* and no sources, and never gives the not-loaded response.                *)
(***************************************************************************)
C22_EmptyBatchIndexes ==
    /\ [](EmptyRun =>
            /\ ~Called("embed_text")
            /\ embeddings = <<>>
            /\ pc # "IX_EMBED" =>
                /\ vectorstore = create_index(dimension)
                /\ last_embedding_len = 0 => vectorstore.dimension = DEFAULT_DIMENSION
            /\ exc # NoExc =>
                /\ exc.where = "save"
                /\ pc = "IX_FAILED"
                /\ ~ix_result
                /\ disk = pre.disk
                /\ is_loaded = pre.is_loaded
            /\ pc = "IX_DONE" =>
                /\ calls = <<"create_index", "add_documents", "save">>
                /\ disk = vectorstore
                /\ is_loaded
                /\ ix_result)
    /\ [](op \in QueryOps /\ EmptyIndexLive =>
            /\ is_loaded
            /\ pc # "NOT_LOADED"
            /\ context = ""
            /\ sources = <<>>
            /\ pc \in QueryTerminal => result.answer # NOT_LOADED_ANSWER)
    /\ [][(op \in QueryOps /\ pc = "START" /\ EmptyIndexLive) => pc' = "RETRIEVE"]_vars
    /\ [][(op \in QueryOps /\ pc = "RETRIEVE" /\ EmptyIndexLive) =>
            (Len(calls') > 0 /\ calls'[1] = "embed_text")]_vars

C22_Witness ==
    /\ op \in QueryOps
    /\ pc = "DONE"
    /\ EmptyIndexLive
    /\ calls = RetrievalCalls \o <<"generate_completion">>
    /\ result.context = ""
    /\ result.sources = <<>>

====
